---- MODULE Spec2Model ----
(***************************************************************************)
(* Model of src/main.py: the response-driven control loop of the desktop   *)
(* automation agent (main), the model call (send_to_ai), the action        *)
(* executor (process_response) and the validator (validate_response).      *)
(***************************************************************************)
EXTENDS Integers, Sequences, FiniteSets, TLC

(***************************************************************************)
(* Bounds of the model.                                                    *)
(***************************************************************************)
\* number of loop iterations explored in one run
MaxIter == 4

(***************************************************************************)
(* Program constants.                                                      *)
(***************************************************************************)
\* main: max_retries = 3
max_retries == 3
\* send_to_ai: max_retries = 3
send_max_retries == 3
\* process_response: x = round((x)*2)
SCALE == 2
\* send_to_ai: raw_content = raw_content[6:]
FENCE_SKIP == 6
\* send_to_ai: raw_content = raw_content[:-3]
FENCE_TAIL == 3

(***************************************************************************)
(* Python / JSON values.  Every value is a record tagged by t.             *)
(***************************************************************************)
None == [t |-> "null"]
Absent == [t |-> "absent"]
Int_(n) == [t |-> "int", n |-> n]
Str(s) == [t |-> "str", s |-> s]
List(l) == [t |-> "list", l |-> l]
Obj(a, c, r) == [t |-> "obj", action |-> a, content |-> c, reasoning |-> r]

\* RESPONSE_SCHEMA['properties']['action']['enum']
ActionEnum ==
  {"question", "mouse_move", "clipboard", "task_complete", "mouse_click",
   "mouse_right_click", "mouse_double_click", "keyboard_input"}

MouseActions ==
  {"mouse_move", "mouse_click", "mouse_right_click", "mouse_double_click"}

\* dict.get(key, default): the member when present, else the default
Get(obj, key, default) ==
  LET v == CASE key = "action" -> obj.action
             [] key = "content" -> obj.content
             [] OTHER -> obj.reasoning
  IN  IF v = Absent THEN default ELSE v

\* Python truthiness of a value
Truthy(v) ==
  CASE v.t = "null" -> FALSE
    [] v.t = "absent" -> FALSE
    [] v.t = "str" -> v.s # ""
    [] v.t = "int" -> v.n # 0
    [] v.t = "list" -> Len(v.l) > 0
    [] OTHER -> TRUE

(***************************************************************************)
(* Reply texts.  A text is a sequence of units.  A unit is one character   *)
(* Ch(c), or the complete text of one JSON value, carried as the value it  *)
(* denotes (no slice taken by send_to_ai cuts inside such a unit: it       *)
(* neither starts with a backtick nor ends with one).                      *)
(***************************************************************************)
Ch(c) == [t |-> "ch", c |-> c]

Chars(s) == [i \in 1..Len(s) |-> Ch(s[i])]

\* the backtick character (the lexer of TLA+ has no literal for it)
BT == "bt"

\* the marker tested by raw_content.startswith, line 167
FenceOpen == Chars(<<BT, BT, BT, "j", "s", "o", "n">>)
\* the marker tested by raw_content.endswith, line 169
FenceClose == Chars(<<BT, BT, BT>>)
NL == Chars(<<"\n">>)

\* str.startswith
StartsWith(s, p) == Len(s) >= Len(p) /\ SubSeq(s, 1, Len(p)) = p

\* str.endswith
EndsWith(s, p) ==
  Len(s) >= Len(p) /\ SubSeq(s, Len(s) - Len(p) + 1, Len(s)) = p

\* s[k:]
DropFirst(s, k) == SubSeq(s, k + 1, Len(s))

\* s[:-k]
DropLast(s, k) == SubSeq(s, 1, Len(s) - k)

\* send_to_ai, lines 167-170: removal of the fence markers
StripFence(raw_content) ==
  LET a == IF StartsWith(raw_content, FenceOpen)
           THEN DropFirst(raw_content, FENCE_SKIP) ELSE raw_content
  IN  IF EndsWith(a, FenceClose) THEN DropLast(a, FENCE_TAIL) ELSE a

IsSpace(u) == u.t = "ch" /\ u.c \in {" ", "\n", "\t", "\r"}

RECURSIVE LStrip(_)
LStrip(s) ==
  IF Len(s) > 0 /\ IsSpace(s[1]) THEN LStrip(Tail(s)) ELSE s

RECURSIVE RStrip(_)
RStrip(s) ==
  IF Len(s) > 0 /\ IsSpace(s[Len(s)])
  THEN RStrip(SubSeq(s, 1, Len(s) - 1)) ELSE s

DecodeError == [t |-> "JSONDecodeError"]

\* json.loads: optional whitespace, one JSON value, optional whitespace.
\* The literal null is also recognised when spelt out in characters.
JsonLoads(text) ==
  LET s == RStrip(LStrip(text))
  IN  IF Len(s) = 1 /\ s[1].t # "ch" THEN s[1]
      ELSE IF s = Chars(<<"n", "u", "l", "l">>) THEN None
      ELSE DecodeError

\* send_to_ai, lines 163-178: what one successful transport attempt returns
ParseReply(raw_content) ==
  LET parsed == JsonLoads(StripFence(raw_content))
  IN  IF parsed = DecodeError
      THEN Obj(Str("error"), Str("JSONDecodeError"), Str("json_parse_failed"))
      ELSE parsed

(***************************************************************************)
(* Coordinate mapping of the four mouse branches of process_response.      *)
(***************************************************************************)
Min2(a, b) == IF a < b THEN a ELSE b
Max2(a, b) == IF a > b THEN a ELSE b

\* the mapping without the bounds check
MapCoord_unclamped(v, size) == v * SCALE

\* x = round((x)*2); x = max(0, min(x, SCREEN_WIDTH-1))
MapCoord(v, size) == Max2(0, Min2(v * SCALE, size - 1))

\* x, y = content; round(x*2): succeeds for a pair of numbers only
\* (a 2-character string unpacks but round() of a string raises)
Unpackable(content) ==
  /\ content.t = "list"
  /\ Len(content.l) = 2
  /\ \A i \in 1..2 : content.l[i].t = "int"

NoGui == [kind |-> "none", x |-> 0, y |-> 0, text |-> None]
GuiPoint(kind, x, y) == [kind |-> kind, x |-> x, y |-> y, text |-> None]
GuiWrite(content) == [kind |-> "write", x |-> 0, y |-> 0, text |-> content]

\* the mouse_move branch as the commented-out code has it: pyautogui.moveTo
GuiKind_moveTo(action) ==
  CASE action = "mouse_move" -> "moveTo"
    [] action = "mouse_click" -> "click"
    [] action = "mouse_right_click" -> "rightClick"
    [] OTHER -> "doubleClick"

\* the pyautogui function each mouse branch calls
GuiKind(action) ==
  CASE action = "mouse_move" -> "click"
    [] action = "mouse_click" -> "click"
    [] action = "mouse_right_click" -> "rightClick"
    [] OTHER -> "doubleClick"

\* the call issued by a mouse branch for a content that unpacks
MouseCall(action, content, screen) ==
  GuiPoint(GuiKind(action),
           MapCoord(content.l[1].n, screen[1]),
           MapCoord(content.l[2].n, screen[2]))

\* pyautogui.write(content) iterates over its argument: a string, or a list
\* of key names; any other argument raises inside the call
Writable(content) ==
  \/ content.t = "str"
  \/ content.t = "list" /\ \A i \in 1..Len(content.l) : content.l[i].t = "str"

\* the action member as the branch selector of process_response
ActionName(response) ==
  LET a == Get(response, "action", None)
  IN  IF a.t = "str" THEN a.s ELSE "None"

\* the executor without the asked_confirmation test
DuplicateQuestion_never(asked) == FALSE

\* process_response, line 195: a second question is refused
DuplicateQuestion(asked) == asked

\* task_complete reporting its "error" content as an error outcome
CompleteOutcome_byContent(content) ==
  IF content = Str("error") THEN "error" ELSE "complete"

\* process_response, lines 316-318: the outcome of task_complete
CompleteOutcome(content) == "complete"

\* the comparison made on the answer as typed, without lower()
Lower_asTyped(s) == s

\* str.lower on the answers the model enumerates
Lower(s) ==
  CASE s = "EXIT" -> "exit"
    [] s = "Quit" -> "quit"
    [] s = "Y" -> "y"
    [] OTHER -> s

(***************************************************************************)
(* validate_response, applied to the parsed reply.                         *)
(***************************************************************************)
\* int(x): "ok", ValueError for non-digit text, TypeError for null or a list
IntConv(e) ==
  CASE e.t = "int" -> "ok"
    [] e.t = "str" -> IF e.s \in {"12", "7"} THEN "ok" ELSE "ValueError"
    [] OTHER -> "TypeError"

validate_response(parsed) ==
  IF parsed.t # "obj" THEN "raise_TypeError"
  ELSE IF parsed.action = Absent THEN "missing_field"
  ELSE IF ~(parsed.action.t = "str" /\ parsed.action.s \in ActionEnum)
       THEN "invalid_action"
  ELSE IF parsed.action.s \in MouseActions /\ parsed.content = Absent
       THEN "missing_field"
  ELSE IF parsed.action.s \in MouseActions
          /\ (parsed.content.t # "list" \/ Len(parsed.content.l) # 2)
       THEN "bad_coordinate_format"
  ELSE IF parsed.action.s \in MouseActions
          /\ IntConv(parsed.content.l[1]) = "TypeError"
       THEN "raise_TypeError"
  ELSE IF parsed.action.s \in MouseActions
          /\ IntConv(parsed.content.l[1]) = "ValueError"
       THEN "coordinate_not_integer"
  ELSE IF parsed.action.s \in MouseActions
          /\ IntConv(parsed.content.l[2]) = "TypeError"
       THEN "raise_TypeError"
  ELSE IF parsed.action.s \in MouseActions
          /\ IntConv(parsed.content.l[2]) = "ValueError"
       THEN "coordinate_not_integer"
  ELSE IF parsed.action.s = "keyboard_input" /\ parsed.content = Absent
       THEN "missing_field"
  ELSE IF parsed.action.s = "keyboard_input" /\ parsed.content.t # "str"
       THEN "keyboard_content_not_string"
  ELSE IF parsed.reasoning = Absent THEN "missing_reasoning"
  ELSE IF parsed.reasoning.t # "str" THEN "reasoning_not_string"
  ELSE "valid"

(***************************************************************************)
(* The inputs the environment supplies: screen sizes, model replies, user  *)
(* answers.                                                                *)
(***************************************************************************)
\* pyautogui.size() at import
Screens == {<<1920, 1080>>, <<4, 3>>}

Reasonings == {Absent, Str("r1"), Str("r2"), Int_(5)}

CoordPairs ==
  {<<100, 200>>, <<-1, 0>>, <<959, 539>>, <<960, 540>>, <<1000, 3000>>,
   <<1, 1>>}

PairContents == {List(<<Int_(p[1]), Int_(p[2])>>) : p \in CoordPairs}

OddContents ==
  {Absent, None, Str("ab"), List(<<Int_(1)>>),
   List(<<Int_(1), Int_(2), Int_(3)>>), List(<<Int_(1), None>>),
   List(<<Str("12"), Str("7")>>), List(<<Str("ab"), Int_(1)>>),
   List(<<List(<<Int_(1)>>), Int_(2)>>)}

TextContents == {Str("success"), Str("error"), Str("hi")}

OtherContents == {Absent, None, Int_(7), List(<<Str("a")>>)}

OtherActions ==
  {Str("question"), Str("clipboard"), Str("keyboard_input"),
   Str("task_complete"), Str("error"), Str("bogus"), Absent}

\* the JSON objects a reply may carry
ReplyObjects ==
  {Obj(Str(a), c, r) : a \in MouseActions, c \in PairContents, r \in Reasonings}
  \cup {Obj(Str(a), c, Str("r1")) : a \in MouseActions, c \in OddContents}
  \cup {Obj(a, c, r) : a \in OtherActions, c \in TextContents, r \in Reasonings}
  \cup {Obj(a, c, Str("r1")) : a \in OtherActions, c \in OtherContents}

\* well-formed JSON that is not an object
ReplyNonObjects == {None, Int_(7), Str("hi"), List(<<Int_(1)>>)}

\* the objects also sent inside a fence
FencedObjects ==
  {o \in ReplyObjects :
     /\ o.reasoning = Str("r1")
     /\ o.content \in {Str("success"), List(<<Int_(100), Int_(200)>>)}}

\* the reply t as the model is asked to send it
Plain(v) == <<v>>
\* a leading fence marker, a newline, t, a newline, a trailing marker
Fenced(v) == FenceOpen \o NL \o <<v>> \o NL \o FenceClose
\* t followed by a newline and the trailing marker only
TrailFenced(v) == <<v>> \o NL \o FenceClose

MalformedTexts ==
  {<< >>, Chars(<<"o", "k">>), Chars(<<"{">>),
   FenceOpen \o Chars(<<"u", "l", "l">>)}

RawReplies ==
  {Plain(v) : v \in ReplyObjects \cup ReplyNonObjects}
  \cup {Fenced(v) : v \in FencedObjects}
  \cup {TrailFenced(v) : v \in FencedObjects}
  \cup MalformedTexts

\* what the user types at the question prompt
QuestionAnswers == {"exit", "EXIT", "Quit", "yes"}
\* what the user types at the retry prompt
RetryAnswers == {"y", "Y", "n", ""}

NoReply == <<[t |-> "noreply"]>>

(***************************************************************************)
(* State.                                                                  *)
(***************************************************************************)
VARIABLES
  pc,                  \* position of main
  screen,              \* SCREEN_WIDTH, SCREEN_HEIGHT
  retry_count,         \* main: error counter
  image_url,           \* main: url of the uploaded screenshot or None
  image_hash,          \* main: handle of the uploaded screenshot or None
  previous_reasoning,  \* main
  asked_confirmation,  \* main
  messages,            \* main: the message list of the iteration
  retry,               \* send_to_ai: loop index
  raw_content,         \* send_to_ai: text of the last reply
  response,            \* main: what send_to_ai returned
  status,              \* main: first result of process_response
  reasoning,           \* main: second result of process_response
  iter,                \* iterations started
  outstanding,         \* handles uploaded with no delete requested yet
  gui,                 \* the GUI call issued in this iteration
  errorsSeen,          \* error outcomes returned by process_response
  consec,              \* error outcomes handled since the last continue
  prompts,             \* question prompts shown to the user
  exitCause,           \* why the run ended
  appended,            \* the answers process_response appended to messages
  attempts,            \* create calls made by send_to_ai in this iteration
  typed,               \* process_response: user_input at the question
  trace                \* the collaborator calls of this iteration, in order

vars ==
  <<pc, screen, retry_count, image_url, image_hash, previous_reasoning,
    asked_confirmation, messages, retry, raw_content, response, status,
    reasoning, iter, outstanding, gui, errorsSeen, consec, prompts,
    exitCause, appended, attempts, typed, trace>>

\* the variables that only record what happened
history == <<appended, attempts, typed, trace>>

Hash(i) == [t |-> "hash", n |-> i]
Url(i) == [t |-> "url", n |-> i]

\* main, lines 497-503
Init ==
  /\ pc = "loop"
  /\ screen \in Screens
  /\ retry_count = 0
  /\ image_url = None
  /\ image_hash = None
  /\ previous_reasoning = Str("")
  /\ asked_confirmation = FALSE
  /\ messages = << >>
  /\ retry = 0
  /\ raw_content = NoReply
  /\ response = None
  /\ status = "none"
  /\ reasoning = None
  /\ iter = 0
  /\ outstanding = {}
  /\ gui = NoGui
  /\ errorsSeen = 0
  /\ consec = 0
  /\ prompts = 0
  /\ exitCause = "running"
  /\ appended = << >>
  /\ attempts = 0
  /\ typed = ""
  /\ trace = << >>

(***************************************************************************)
(* build_prompt and the message list of main, lines 520-537.               *)
(***************************************************************************)
\* "..." + previous_reasoning raises TypeError for a truthy non-string
PromptFails(prev) == Truthy(prev) /\ prev.t # "str"

build_prompt(prev, asked) ==
  [type |-> "text",
   note |-> IF Truthy(prev) THEN prev ELSE Str("first"),
   confirmed |-> asked]

ImagePart(url) == [type |-> "image_url", image_url |-> url]

UserMessage(parts) == [role |-> "user", content |-> parts]

\* process_response, lines 201-204
AnswerMessage(text) == UserMessage(<<[type |-> "text", text |-> text]>>)

(***************************************************************************)
(* main and the functions it calls, one action per step between two        *)
(* collaborator calls or waits.                                            *)
(***************************************************************************)
\* main, line 548: retry_count += 1
NextRetryCount(rc) == rc + 1

\* the budget test written with > instead of >=
BudgetExhausted_strict(rc) == rc > max_retries

\* main, line 549: if retry_count >= max_retries
BudgetExhausted(rc) == rc >= max_retries

\* a continue branch that starts the count again
CountAfterContinue_reset(rc) == 0

\* main, lines 555-562: the continue branch leaves the counter alone
CountAfterContinue(rc) == rc

\* a delete that requests nothing
AfterDelete_skip(held, hash) == held

\* SMMS.delete_uploaded_image: a delete is requested for a truthy handle
AfterDelete(held, hash) == IF Truthy(hash) THEN held \ {hash} ELSE held

\* main, lines 505-510: loop test, then delete of the previous upload
BeginIteration ==
  /\ pc = "loop"
  /\ iter < MaxIter
  /\ IF retry_count < max_retries
     THEN /\ outstanding' = AfterDelete(outstanding, image_hash)
          /\ image_hash' = IF Truthy(image_hash) THEN None ELSE image_hash
          /\ image_url' = IF Truthy(image_hash) THEN None ELSE image_url
          /\ iter' = iter + 1
          /\ gui' = NoGui
          /\ attempts' = 0
          /\ trace' = << >>
          /\ pc' = "capture"
     ELSE /\ pc' = "cleanup"
          /\ UNCHANGED <<outstanding, image_hash, image_url, iter, gui,
                         attempts, trace>>
  /\ UNCHANGED <<screen, retry_count, previous_reasoning, asked_confirmation,
                 messages, retry, raw_content, response, status, reasoning,
                 errorsSeen, consec, prompts, exitCause, appended, typed>>

\* a failed capture handled like an error outcome: the user is asked to retry
Capture_retry ==
  /\ pc = "capture"
  /\ \E ok \in BOOLEAN :
       IF ok
       THEN pc' = "upload" /\ exitCause' = exitCause
       ELSE pc' = "retry_prompt" /\ exitCause' = "capture_failure"
  /\ trace' = Append(trace, "capture")
  /\ UNCHANGED <<screen, retry_count, image_url, image_hash,
                 previous_reasoning, asked_confirmation, messages, retry,
                 raw_content, response, status, reasoning, iter, outstanding,
                 gui, errorsSeen, consec, prompts, appended, attempts, typed>>

\* main, lines 513-516: take_screenshot; a failed capture is sys.exit(1)
Capture ==
  /\ pc = "capture"
  /\ \E ok \in BOOLEAN :
       IF ok
       THEN pc' = "upload" /\ exitCause' = exitCause
       ELSE pc' = "exited" /\ exitCause' = "capture_failure"
  /\ trace' = Append(trace, "capture")
  /\ UNCHANGED <<screen, retry_count, image_url, image_hash,
                 previous_reasoning, asked_confirmation, messages, retry,
                 raw_content, response, status, reasoning, iter, outstanding,
                 gui, errorsSeen, consec, prompts, appended, attempts, typed>>

\* main, lines 519-537: upload_image, then the message list
Upload ==
  /\ pc = "upload"
  /\ \E ok \in BOOLEAN :
       /\ image_url' = IF ok THEN Url(iter) ELSE None
       /\ image_hash' = IF ok THEN Hash(iter) ELSE None
       /\ outstanding' = IF ok THEN outstanding \cup {Hash(iter)}
                         ELSE outstanding
       /\ IF PromptFails(previous_reasoning)
          THEN /\ pc' = "exited"
               /\ exitCause' = "unhandled_exception"
               /\ UNCHANGED <<messages, retry>>
          ELSE /\ messages' =
                    <<UserMessage(
                        IF ok
                        THEN <<ImagePart(Url(iter)),
                               build_prompt(previous_reasoning,
                                            asked_confirmation)>>
                        ELSE <<build_prompt(previous_reasoning,
                                            asked_confirmation)>>)>>
               /\ retry' = 0
               /\ pc' = "send"
               /\ exitCause' = exitCause
  /\ trace' = Append(trace, "upload")
  /\ UNCHANGED <<screen, retry_count, previous_reasoning, asked_confirmation,
                 raw_content, response, status, reasoning, iter, gui,
                 errorsSeen, consec, prompts, appended, attempts, typed>>

\* send_to_ai, lines 179-186: what the function returns when it gives up
TransportError ==
  Obj(Str("error"), Str("Max retries exceeded"), Str("max_retries"))

\* a retry test that allows one pass more
MoreRetries_oneMore(r) == r < send_max_retries

\* send_to_ai, line 181: if retry < max_retries - 1
MoreRetries(r) == r < send_max_retries - 1

\* send_to_ai without its JSONDecodeError handler: a reply that does not
\* parse is caught by the general handler and the submission is repeated
SendAttempt_retryDecode ==
  /\ pc = "send"
  /\ \/ /\ raw_content' = NoReply
        /\ IF MoreRetries(retry)
           THEN retry' = retry + 1 /\ pc' = pc /\ response' = response
           ELSE retry' = retry /\ pc' = "process"
                /\ response' = TransportError
     \/ \E raw \in RawReplies :
          /\ raw_content' = raw
          /\ IF JsonLoads(StripFence(raw)) = DecodeError
             THEN IF MoreRetries(retry)
                  THEN retry' = retry + 1 /\ pc' = pc /\ response' = response
                  ELSE retry' = retry /\ pc' = "process"
                       /\ response' = TransportError
             ELSE /\ response' = ParseReply(raw)
                  /\ pc' = "process"
                  /\ retry' = retry
  /\ attempts' = attempts + 1
  /\ trace' = IF attempts = 0 THEN Append(trace, "send") ELSE trace
  /\ UNCHANGED <<screen, retry_count, image_url, image_hash,
                 previous_reasoning, asked_confirmation, messages, status,
                 reasoning, iter, outstanding, gui, errorsSeen, consec,
                 prompts, exitCause, appended, typed>>

\* send_to_ai, lines 154-186: one pass of the retry loop
SendAttempt ==
  /\ pc = "send"
  /\ \/ /\ raw_content' = NoReply
        /\ IF MoreRetries(retry)
           THEN retry' = retry + 1 /\ pc' = pc /\ response' = response
           ELSE retry' = retry /\ pc' = "process"
                /\ response' = TransportError
     \/ \E raw \in RawReplies :
          /\ raw_content' = raw
          /\ response' = ParseReply(raw)
          /\ pc' = "process"
          /\ retry' = retry
  /\ attempts' = attempts + 1
  /\ trace' = IF attempts = 0 THEN Append(trace, "send") ELSE trace
  /\ UNCHANGED <<screen, retry_count, image_url, image_hash,
                 previous_reasoning, asked_confirmation, messages, status,
                 reasoning, iter, outstanding, gui, errorsSeen, consec,
                 prompts, exitCause, appended, typed>>

\* process_response returns (st, rs) to main after issuing GUI call g
Return(st, rs, g) ==
  /\ status' = st
  /\ reasoning' = rs
  /\ gui' = g
  /\ errorsSeen' = IF st = "error" THEN errorsSeen + 1 ELSE errorsSeen
  /\ trace' = IF g # gui THEN Append(trace, "gui") ELSE trace
  /\ pc' = "status"

\* process_response, lines 188-326, up to its return or its first prompt
ProcessResponse ==
  /\ pc = "process"
  /\ IF response.t # "obj"
     THEN /\ pc' = "exited"
          /\ exitCause' = "unhandled_exception"
          /\ UNCHANGED <<status, reasoning, gui, errorsSeen, prompts, trace>>
     ELSE LET action == ActionName(response)
              content == Get(response, "content", Str(""))
              rs == Get(response, "reasoning", Str(""))
          IN  /\ exitCause' = exitCause
              /\ CASE action = "question" ->
                        IF DuplicateQuestion(asked_confirmation)
                        THEN /\ Return("error", Str("duplicate question"), gui)
                             /\ prompts' = prompts
                        ELSE /\ pc' = "question_prompt"
                             /\ prompts' = prompts + 1
                             /\ UNCHANGED <<status, reasoning, gui,
                                            errorsSeen, trace>>
                   [] action \in MouseActions ->
                        /\ prompts' = prompts
                        /\ IF Unpackable(content)
                           THEN \E fault \in BOOLEAN :
                                  Return(IF fault THEN "error" ELSE "continue",
                                         IF fault THEN Str("click failed")
                                         ELSE rs,
                                         MouseCall(action, content, screen))
                           ELSE Return("error", Str("click failed"), gui)
                   [] action = "clipboard" ->
                        /\ pc' = "clipboard_prompt"
                        /\ UNCHANGED <<status, reasoning, gui, errorsSeen,
                                       prompts, trace>>
                   [] action = "keyboard_input" ->
                        /\ prompts' = prompts
                        /\ \E fault \in
                               (IF Writable(content) THEN BOOLEAN ELSE {TRUE}) :
                             Return(IF fault THEN "error" ELSE "continue",
                                    IF fault THEN Str("write failed") ELSE rs,
                                    GuiWrite(content))
                   [] action = "task_complete" ->
                        /\ prompts' = prompts
                        /\ Return(CompleteOutcome(content), rs, gui)
                   [] action = "error" ->
                        /\ prompts' = prompts
                        /\ Return("error", rs, gui)
                   [] OTHER ->
                        /\ prompts' = prompts
                        /\ Return("error", Str("unknown action"), gui)
  /\ UNCHANGED <<screen, retry_count, image_url, image_hash,
                 previous_reasoning, asked_confirmation, messages, retry,
                 raw_content, response, iter, outstanding, consec, appended,
                 attempts, typed>>

\* process_response, lines 198-205: the user's answer to the question
AnswerQuestion ==
  /\ pc = "question_prompt"
  /\ \E user_input \in QuestionAnswers :
       /\ typed' = user_input
       /\ IF Lower(user_input) \in {"exit", "quit"}
          THEN /\ Return("exit", None, gui)
               /\ messages' = messages
               /\ appended' = appended
          ELSE /\ messages' = Append(messages, AnswerMessage(user_input))
               /\ appended' = Append(appended, AnswerMessage(user_input))
               /\ Return("continue", Get(response, "reasoning", Str("")),
                         gui)
  /\ UNCHANGED <<screen, retry_count, image_url, image_hash,
                 previous_reasoning, asked_confirmation, retry, raw_content,
                 response, iter, outstanding, consec, prompts, exitCause,
                 attempts>>

\* process_response, lines 303-304: the user confirms the manual paste
AnswerClipboard ==
  /\ pc = "clipboard_prompt"
  /\ Return("continue", Get(response, "reasoning", Str("")), gui)
  /\ UNCHANGED <<screen, retry_count, image_url, image_hash,
                 previous_reasoning, asked_confirmation, messages, retry,
                 raw_content, response, iter, outstanding, consec, prompts,
                 exitCause, appended, attempts, typed>>

\* main with previous_reasoning = reasoning outside the else branch
ReasoningAfter_always(st, prev, rs) == rs

\* main, lines 542-556: previous_reasoning is assigned in the else branch
ReasoningAfter(st, prev, rs) ==
  IF st \in {"complete", "exit", "error"} THEN prev ELSE rs

\* main with the question test outside the else branch
AskedAfter_anyStatus(st, action, asked) ==
  IF action = "question" THEN TRUE ELSE asked

\* main, lines 555-558: asked_confirmation is set in the else branch
AskedAfter(st, action, asked) ==
  IF st \notin {"complete", "exit", "error"} /\ action = "question"
  THEN TRUE ELSE asked

\* main, lines 542-562: the dispatch on status.  response, status, reasoning
\* and raw_content are not read again before they are reassigned.
HandleStatus ==
  /\ pc = "status"
  /\ CASE status = "complete" ->
            /\ pc' = "cleanup"
            /\ exitCause' = "complete"
            /\ UNCHANGED <<retry_count, consec>>
       [] status = "exit" ->
            /\ pc' = "cleanup"
            /\ exitCause' = "exit"
            /\ UNCHANGED <<retry_count, consec>>
       [] status = "error" ->
            /\ retry_count' = NextRetryCount(retry_count)
            /\ consec' = consec + 1
            /\ IF BudgetExhausted(retry_count')
               THEN pc' = "cleanup" /\ exitCause' = "budget"
               ELSE pc' = "retry_prompt" /\ exitCause' = exitCause
       [] OTHER ->
            /\ retry_count' = CountAfterContinue(retry_count)
            /\ consec' = 0
            /\ pc' = "loop"
            /\ exitCause' = exitCause
  /\ previous_reasoning' =
       ReasoningAfter(status, previous_reasoning, reasoning)
  /\ asked_confirmation' =
       AskedAfter(status, ActionName(response), asked_confirmation)
  /\ response' = None
  /\ status' = "none"
  /\ reasoning' = None
  /\ raw_content' = NoReply
  /\ typed' = ""
  /\ UNCHANGED <<screen, image_url, image_hash, messages, retry, iter,
                 outstanding, gui, errorsSeen, prompts, appended, attempts,
                 trace>>

\* a retry that submits again without a fresh capture
AnswerRetry_sameShot ==
  /\ pc = "retry_prompt"
  /\ \E answer \in RetryAnswers :
       IF Lower(answer) # "y"
       THEN pc' = "cleanup" /\ exitCause' = "declined"
       ELSE pc' = "upload" /\ exitCause' = exitCause
  /\ UNCHANGED <<screen, retry_count, image_url, image_hash,
                 previous_reasoning, asked_confirmation, messages, retry,
                 raw_content, response, status, reasoning, iter, outstanding,
                 gui, errorsSeen, consec, prompts, appended, attempts, typed,
                 trace>>

\* main, lines 552-554: the user's answer to the retry prompt
AnswerRetry ==
  /\ pc = "retry_prompt"
  /\ \E answer \in RetryAnswers :
       IF Lower(answer) # "y"
       THEN pc' = "cleanup" /\ exitCause' = "declined"
       ELSE pc' = "loop" /\ exitCause' = exitCause
  /\ UNCHANGED <<screen, retry_count, image_url, image_hash,
                 previous_reasoning, asked_confirmation, messages, retry,
                 raw_content, response, status, reasoning, iter, outstanding,
                 gui, errorsSeen, consec, prompts, appended, attempts, typed,
                 trace>>

\* main, lines 564-566: the delete after the loop
FinalCleanup ==
  /\ pc = "cleanup"
  /\ outstanding' = AfterDelete(outstanding, image_hash)
  /\ pc' = "done"
  /\ UNCHANGED <<screen, retry_count, image_url, image_hash,
                 previous_reasoning, asked_confirmation, messages, retry,
                 raw_content, response, status, reasoning, iter, gui,
                 errorsSeen, consec, prompts, exitCause, appended, attempts,
                 typed, trace>>

\* signal_handler, lines 46-49: SIGINT raises SystemExit where main stands;
\* nothing in main catches it and no cleanup runs
Interrupt ==
  /\ pc \notin {"done", "exited"}
  /\ pc' = "exited"
  /\ exitCause' = "interrupt"
  /\ UNCHANGED <<screen, retry_count, image_url, image_hash,
                 previous_reasoning, asked_confirmation, messages, retry,
                 raw_content, response, status, reasoning, iter, outstanding,
                 gui, errorsSeen, consec, prompts, appended, attempts, typed,
                 trace>>

Next ==
  \/ BeginIteration
  \/ Capture
  \/ Upload
  \/ SendAttempt
  \/ ProcessResponse
  \/ AnswerQuestion
  \/ AnswerClipboard
  \/ HandleStatus
  \/ AnswerRetry
  \/ FinalCleanup
  \/ Interrupt

Spec == Init /\ [][Next]_vars

TypeOK ==
  /\ pc \in {"loop", "capture", "upload", "send", "process",
             "question_prompt", "clipboard_prompt", "status", "retry_prompt",
             "cleanup", "done", "exited"}
  /\ retry_count \in 0..max_retries
  /\ iter \in 0..MaxIter
  /\ Cardinality(outstanding) <= 1

(***************************************************************************)
(* Properties.                                                             *)
(***************************************************************************)
RunOver == {"cleanup", "done", "exited"}

\* C1: a run sees at most 3 error outcomes; each one adds exactly one to
\* retry_count (the one returned and not yet dispatched is the only
\* difference), and from the third error on main is past the loop: no retry
\* prompt, no capture, no submission, no GUI action.
C1_AtMostThreeErrors ==
  /\ errorsSeen <= 3
  /\ errorsSeen =
       retry_count + (IF status = "error" THEN 1 ELSE 0)
  /\ errorsSeen = 3 => pc \in RunOver \cup {"status"}
  /\ retry_count = 3 => pc \in RunOver

C1_Witness ==
  /\ pc = "done"
  /\ exitCause = "budget"
  /\ errorsSeen = 3
  /\ iter > 3

\* C2 as stated: the run ends for budget exhaustion only after three error
\* outcomes in a row.
C2_ConsecutiveBudget == exitCause = "budget" => consec = 3

\* C2 as amended: the budget is 3 error outcomes per run, counted
\* cumulatively: a continue outcome leaves retry_count as it is, and the run
\* ends for budget exhaustion exactly on the error outcome that brings
\* retry_count to 3, whether or not continue outcomes separate the errors.
C2_CumulativeBudget ==
  [][/\ (pc = "status" /\ status = "continue" /\ pc' = "loop")
          => retry_count' = retry_count
     /\ (exitCause # "budget" /\ exitCause' = "budget")
          => (status = "error" /\ retry_count = 2 /\ retry_count' = 3)
     /\ (pc = "status" /\ status = "error" /\ retry_count = 2
         /\ pc' # "exited")
          => exitCause' = "budget"]_vars

C2_Witness ==
  /\ pc = "done"
  /\ exitCause = "budget"
  /\ consec < 3

\* C3: once asked_confirmation is true a question response yields error
\* with no prompt and no appended message, and a run prompts the user with
\* a question at most once.
C3_SingleQuestion ==
  /\ prompts <= 1
  /\ asked_confirmation => (prompts = 1 /\ pc # "question_prompt")
  /\ (pc = "status" /\ asked_confirmation
      /\ ActionName(response) = "question")
        => (status = "error" /\ Len(messages) = 1)

C3_Witness ==
  /\ pc = "status"
  /\ asked_confirmation
  /\ ActionName(response) = "question"
  /\ status = "error"
  /\ prompts = 1

\* C4 as stated: a response the validator rejects comes back from the
\* executor as error, with no GUI call issued.
C4_ValidatedBeforeExecution ==
  (pc = "status" /\ status \in {"continue", "complete", "error"}
   /\ validate_response(response) # "valid")
     => (status = "error" /\ gui = NoGui)

\* C5: at most one uploaded handle has no delete requested, it is the one
\* main holds, none is left when the next upload starts, and none is left
\* when the run ends by complete, exit, budget, declined retry or capture
\* failure.
C5_OneOutstandingUpload ==
  /\ Cardinality(outstanding) <= 1
  /\ outstanding \subseteq {image_hash}
  /\ pc \in {"capture", "upload"} => outstanding = {}
  /\ (pc = "done" \/ exitCause = "capture_failure") => outstanding = {}

C5_Witness ==
  /\ pc = "done"
  /\ iter >= 2
  /\ Truthy(image_hash)
  /\ exitCause \in {"complete", "exit", "budget", "declined"}

\* C6 as stated: a process ended by the interrupt signal leaves no uploaded
\* handle without a delete request.
C6_InterruptDeletes == exitCause = "interrupt" => outstanding = {}

\* C7 as stated: a fenced JSON object parses to the same response as the
\* object sent without the fence.
C7_FenceTransparent ==
  \A v \in FencedObjects :
    (pc = "process" /\ raw_content = Fenced(v))
      => (response = v /\ response = ParseReply(Plain(v)))

\* C8: a mouse action with integer content (x, y) issues its call at
\* (min(max(2x, 0), W-1), min(max(2y, 0), H-1)), a point of the screen;
\* [100, 200] on 1920x1080 gives (200, 400).
C8_MouseClamp ==
  (/\ pc = "status"
   /\ ActionName(response) \in MouseActions
   /\ Unpackable(response.content))
    => LET x == response.content.l[1].n
           y == response.content.l[2].n
           W == screen[1]
           H == screen[2]
       IN  /\ gui.kind \in {"click", "rightClick", "doubleClick"}
           /\ gui.x = Min2(Max2(2 * x, 0), W - 1)
           /\ gui.y = Min2(Max2(2 * y, 0), H - 1)
           /\ 0 <= gui.x /\ gui.x < W
           /\ 0 <= gui.y /\ gui.y < H
           /\ (x = 100 /\ y = 200 /\ W = 1920 /\ H = 1080)
                => (gui.x = 200 /\ gui.y = 400)

C8_Witness ==
  /\ pc = "status"
  /\ ActionName(response) = "mouse_click"
  /\ response.content = List(<<Int_(100), Int_(200)>>)
  /\ screen = <<1920, 1080>>
  /\ gui = GuiPoint("click", 200, 400)

\* C9: a task_complete response, whatever its content, returns complete
\* with no GUI call and no error counted, and main then leaves the loop for
\* the final delete: no retry prompt, no further iteration.
C9_TaskCompleteEnds ==
  [][/\ (pc = "process" /\ response.t = "obj"
         /\ ActionName(response) = "task_complete" /\ pc' # "exited")
          => /\ pc' = "status"
             /\ status' = "complete"
             /\ gui' = NoGui
             /\ errorsSeen' = errorsSeen
     /\ (pc = "status" /\ ActionName(response) = "task_complete"
         /\ pc' # "exited")
          => /\ pc' = "cleanup"
             /\ exitCause' = "complete"
             /\ retry_count' = retry_count
             /\ iter' = iter
     /\ (pc = "cleanup" /\ exitCause = "complete")
          => (pc' \in {"done", "exited"} /\ iter' = iter /\ gui' = gui)]_vars

C9_Witness ==
  /\ pc = "status"
  /\ ActionName(response) = "task_complete"
  /\ response.content = Str("error")
  /\ status = "complete"

\* the text handed to json.loads is not well-formed JSON
Malformed(raw) == raw # NoReply /\ JsonLoads(StripFence(raw)) = DecodeError

\* C10: a reply that is not well-formed JSON ends send_to_ai at once (no
\* further attempt), comes back from the executor as error with no GUI call,
\* and adds exactly one to the error counter.
C10_MalformedJson ==
  [][/\ (pc = "send" /\ Malformed(raw_content') /\ pc' # "exited")
          => (pc' = "process" /\ retry' = retry)
     /\ (pc = "process" /\ Malformed(raw_content) /\ pc' # "exited")
          => /\ pc' = "status"
             /\ status' = "error"
             /\ gui' = NoGui
             /\ errorsSeen' = errorsSeen + 1
     /\ (pc = "status" /\ Malformed(raw_content) /\ pc' # "exited")
          => /\ retry_count' = retry_count + 1
             /\ pc' \in {"retry_prompt", "cleanup"}]_vars

C10_Witness ==
  /\ pc = "status"
  /\ Malformed(raw_content)
  /\ status = "error"
  /\ gui = NoGui
  /\ errorsSeen = retry_count + 1

\* C11 as stated: every answer appended to the message list in an earlier
\* iteration is in the message list submitted to the model in a later one.
C11_MessagesOnlyGrow ==
  pc \in {"send", "process"}
    => \A i \in 1..Len(appended) :
         \E j \in 1..Len(messages) : messages[j] = appended[i]

\* an element int() converts to a whole number
Convertible(e) == e.t = "int" \/ (e.t = "str" /\ e.s \in {"12", "7"})

\* a list of exactly two convertible elements
CoordinatePair(c) ==
  /\ c.t = "list"
  /\ Len(c.l) = 2
  /\ \A i \in 1..2 : Convertible(c.l[i])

\* the values validate_response returns for a refused response
Rejections ==
  {"missing_field", "invalid_action", "bad_coordinate_format",
   "coordinate_not_integer", "keyboard_content_not_string",
   "missing_reasoning", "reasoning_not_string"}

\* C12 as stated: for a mouse action whose content is not a pair of
\* convertible elements the validator returns a rejection; it neither
\* accepts the response nor fails in another way.
C12_BadCoordinateRejected ==
  (/\ pc = "process"
   /\ response.t = "obj"
   /\ ActionName(response) \in MouseActions
   /\ ~CoordinatePair(response.content))
    => validate_response(response) \in Rejections

\* C13: send_to_ai makes at most 3 create calls in an iteration: a failed
\* first or second call is followed by another one, a call that returns a
\* reply ends the retrying, and the third failure returns the error response,
\* which the executor and main count as one error outcome.
C13_ThreeAttempts ==
  [][/\ attempts' <= 3
     /\ (pc = "send" /\ pc' # "exited" /\ raw_content' = NoReply)
          => IF attempts < 2
             THEN pc' = "send" /\ attempts' = attempts + 1
             ELSE pc' = "process" /\ attempts' = 3
                  /\ ActionName(response') = "error"
     /\ (pc = "send" /\ raw_content' # NoReply)
          => (pc' = "process" /\ attempts' = attempts + 1)
     /\ pc # "send" => attempts' \in {attempts, 0}
     /\ (pc = "process" /\ raw_content = NoReply /\ pc' # "exited")
          => /\ pc' = "status"
             /\ status' = "error"
             /\ errorsSeen' = errorsSeen + 1
     /\ (pc = "status" /\ raw_content = NoReply /\ pc' # "exited")
          => retry_count' = retry_count + 1]_vars

C13_Witness ==
  /\ pc = "status"
  /\ raw_content = NoReply
  /\ attempts = 3
  /\ status = "error"
  /\ errorsSeen = retry_count + 1

\* C14: a failed capture ends the process at once: it happens at the capture
\* of an iteration in which nothing was uploaded, submitted or issued to the
\* GUI, the error counter is left as it is, and no step of main follows.
C14_CaptureFailureEndsRun ==
  [][/\ (exitCause # "capture_failure" /\ exitCause' = "capture_failure")
          => /\ pc = "capture"
             /\ pc' = "exited"
             /\ trace' = <<"capture">>
             /\ attempts' = 0
             /\ gui' = NoGui
             /\ image_url' = None
             /\ retry_count' = retry_count
             /\ prompts' = prompts
     /\ exitCause = "capture_failure" => FALSE]_vars

C14_Witness ==
  /\ exitCause = "capture_failure"
  /\ pc = "exited"
  /\ iter >= 2
  /\ retry_count >= 1

\* exit or quit, in the letter cases the user types
ExitWords == {"exit", "quit", "EXIT", "Quit"}

\* C15: exit or quit typed at the question prompt, in any letter case, gives
\* outcome exit with nothing appended and no error counted; main then leaves
\* the loop with asked_confirmation, retry_count and previous_reasoning as
\* they were, and no iteration follows.
C15_ExitAtQuestion ==
  [][/\ (pc = "question_prompt" /\ pc' = "status" /\ typed' \in ExitWords)
          => /\ status' = "exit"
             /\ messages' = messages
             /\ appended' = appended
             /\ errorsSeen' = errorsSeen
             /\ gui' = gui
     /\ (pc = "status" /\ typed \in ExitWords /\ pc' # "exited")
          => /\ pc' = "cleanup"
             /\ exitCause' = "exit"
             /\ asked_confirmation' = asked_confirmation
             /\ retry_count' = retry_count
             /\ previous_reasoning' = previous_reasoning
     /\ exitCause = "exit"
          => /\ pc' \in {"done", "exited"}
             /\ iter' = iter
             /\ asked_confirmation' = asked_confirmation
             /\ retry_count' = retry_count]_vars

C15_Witness ==
  /\ pc = "done"
  /\ exitCause = "exit"
  /\ retry_count >= 1
  /\ previous_reasoning = Str("r2")
  /\ ~asked_confirmation
  /\ Len(messages) = 1

\* the collaborator calls of one iteration, in the order main makes them
IterationOrder == <<"capture", "upload", "send", "gui">>

IsPrefix(s, t) == Len(s) <= Len(t) /\ \A i \in 1..Len(s) : s[i] = t[i]

\* C16: the calls of an iteration are a prefix of capture, upload,
\* submission, GUI action, each made once; a GUI call is issued only after
\* the capture, the upload and the submission of its own iteration, and an
\* iteration that reaches the dispatch has made each of the first three.
C16_Sequential ==
  /\ IsPrefix(trace, IterationOrder)
  /\ gui # NoGui => trace = IterationOrder
  /\ pc = "upload" => trace = <<"capture">>
  /\ pc \in {"process", "question_prompt", "clipboard_prompt"}
       => trace = <<"capture", "upload", "send">>
  /\ pc = "status" => Len(trace) >= 3
  /\ Len(trace) >= 3 <=> attempts >= 1

C16_Witness ==
  /\ pc = "status"
  /\ trace = IterationOrder
  /\ iter >= 2
  /\ gui.kind = "doubleClick"

\* C17: asked_confirmation starts false; it changes only from false to true,
\* in the dispatch of a continue outcome of a question response, which
\* always sets it; it is never set back.
C17_AskedConfirmation ==
  /\ ~asked_confirmation
  /\ [][/\ asked_confirmation' # asked_confirmation
             => /\ ~asked_confirmation
                /\ pc = "status"
                /\ status = "continue"
                /\ ActionName(response) = "question"
        /\ (pc = "status" /\ status = "continue"
            /\ ActionName(response) = "question" /\ pc' # "exited")
             => asked_confirmation'
        /\ asked_confirmation => asked_confirmation']_vars

C17_Witness ==
  /\ asked_confirmation
  /\ pc = "done"
  /\ exitCause = "complete"
  /\ iter >= 3
  /\ retry_count >= 1

\* what a left click on content c gives on the screen, by the fault of the
\* GUI call: the call issued, the outcome and the reasoning returned
LeftClickResult(c, rs, fault) ==
  IF Unpackable(c)
  THEN [gui |-> GuiPoint("click",
                         Min2(Max2(2 * c.l[1].n, 0), screen[1] - 1),
                         Min2(Max2(2 * c.l[2].n, 0), screen[2] - 1)),
        status |-> IF fault THEN "error" ELSE "continue",
        reasoning |-> IF fault THEN Str("click failed") ELSE rs]
  ELSE [gui |-> NoGui, status |-> "error",
        reasoning |-> Str("click failed")]

C19_UploadFailureDegrades ==
  [][(pc = "upload" /\ image_url' = None /\ exitCause' # "interrupt")
       => /\ pc' = "send"
          /\ Len(messages') = 1
          /\ Len(messages'[1].content) = 1
          /\ messages'[1].content[1].type = "text"
          /\ retry_count' = retry_count
          /\ errorsSeen' = errorsSeen
          /\ image_hash' = None
          /\ outstanding' = {}]_vars

\* the text part of the request: the last part of its first message
PromptOf(msgs) == msgs[1].content[Len(msgs[1].content)]

\* C20: previous_reasoning starts empty and changes only in the dispatch of
\* a continue outcome, to the reasoning of the response just executed; the
\* dispatch of an error changes neither it nor asked_confirmation, and the
\* request built for the retry carries the prompt of the failed iteration.
C20_ReasoningFrame ==
  /\ previous_reasoning = Str("")
  /\ [][/\ previous_reasoning' # previous_reasoning
             => (pc = "status" /\ status = "continue")
        /\ (pc = "status" /\ status = "continue" /\ pc' # "exited")
             => previous_reasoning' = Get(response, "reasoning", Str(""))
        /\ (pc = "status" /\ status = "error")
             => /\ previous_reasoning' = previous_reasoning
                /\ asked_confirmation' = asked_confirmation
        /\ (pc = "upload" /\ pc' = "send" /\ consec > 0)
             => PromptOf(messages') = PromptOf(messages)]_vars

C20_Witness ==
  /\ pc = "send"
  /\ consec > 0
  /\ previous_reasoning = Str("r1")
  /\ asked_confirmation
  /\ PromptOf(messages) = build_prompt(Str("r1"), TRUE)

\* C21 as stated: the executor returns one of the four outcomes for every
\* reply send_to_ai parsed (or stops at a prompt on the way to one), a reply
\* that is JSON but not an object comes back as an error counted against the
\* budget, and no such reply ends the run by an unhandled failure that skips
\* the delete of the uploaded screenshot.
C21_EveryReplyHasOutcome ==
  [][(pc = "process" /\ raw_content # NoReply /\ exitCause' # "interrupt")
       => /\ exitCause' # "unhandled_exception"
          /\ pc' \in {"status", "question_prompt", "clipboard_prompt"}
          /\ pc' = "status"
               => status' \in {"continue", "complete", "exit", "error"}
          /\ response.t # "obj"
               => /\ pc' = "status"
                  /\ status' = "error"
                  /\ errorsSeen' = errorsSeen + 1
          /\ outstanding' = outstanding]_vars

====
